---- MODULE Spec2Model ----
(***************************************************************************)
(* Stage Director: construction of a director (action creators + reducer)  *)
(* from a map of transition definitions, src/src/stage-director.js.        *)
(*                                                                         *)
(* JavaScript strings are sequences of tokens; ":" is the only token that  *)
(* the library inspects.  JavaScript objects are functions from field      *)
(* names to values.  Caller-supplied functions are identified by the path  *)
(* at which they sit in the definitions object.                            *)
(***************************************************************************)
EXTENDS Naturals, Sequences, FiniteSets, TLC

VARIABLES definitions, director, last, store, running, called, dispatched,
          composite

vars ==
  <<definitions, director, last, store, running, called, dispatched,
    composite>>

----------------------------------------------------------------------------
(* Bounds                                                                  *)

MaxDefs == 2

MaxThunks == 2

\* callback invocations explored per store
MaxDone == 2

\* actions dispatched in the account scenario
MaxSteps == 3

----------------------------------------------------------------------------
(* JavaScript values                                                       *)

\* the value `undefined`; never a string a caller can write
undefined == <<"#undefined">>

\* the value `undefined` where an object is expected (an omitted argument)
undefinedObject == [f \in {"#undefined"} |-> <<>>]

\* the empty object literal {}
EmptyObject == [f \in {} |-> <<>>]

\* template-literal interpolation `${v}`
template(v) == IF v = undefined THEN <<"undefined">> ELSE v

\* truthiness of a string-or-undefined value
Truthy(v) == v # undefined /\ v # <<>>

\* obj[field], undefined when the property is absent
Get(obj, field) == IF field \in DOMAIN obj THEN obj[field] ELSE undefined

\* array[i] (0-based), undefined past the end
At(array, i) == IF i + 1 <= Len(array) THEN array[i + 1] ELSE undefined

\* object spread { ...a, ...b }
Spread(a, b) ==
  [f \in (DOMAIN a) \cup (DOMAIN b) |-> IF f \in DOMAIN b THEN b[f] ELSE a[f]]

\* String.prototype.split(sep)
RECURSIVE split(_, _)
split(str, sep) ==
  IF \E i \in 1..Len(str) : str[i] = sep
  THEN LET i == CHOOSE i \in 1..Len(str) :
                  str[i] = sep /\ \A j \in 1..(i - 1) : str[j] # sep
       IN  <<SubSeq(str, 1, i - 1)>> \o split(SubSeq(str, i + 1, Len(str)), sep)
  ELSE <<str>>

\* Array.prototype.join(sep)
RECURSIVE join(_, _)
join(array, sep) ==
  IF Len(array) = 0 THEN <<>>
  ELSE IF Len(array) = 1 THEN array[1]
  ELSE array[1] \o <<sep>> \o join(Tail(array), sep)

\* property names every plain object inherits from Object.prototype
ObjectPrototypeKeys == {<<"constructor">>}

----------------------------------------------------------------------------
(* Helpers and constants of the library                                    *)

SEP == ":"

\* makeKey that keeps only the first component of the action name
makeKey_truncated(namespace, actionName, subActionName) ==
  IF Truthy(subActionName)
  THEN template(namespace) \o <<SEP>> \o <<template(actionName)[1]>>
         \o <<SEP>> \o template(subActionName)
  ELSE template(namespace) \o <<SEP>> \o <<template(actionName)[1]>>

\* makeKey that puts one fixed namespace in every key
makeKey_fixedNamespace(namespace, actionName, subActionName) ==
  IF Truthy(subActionName)
  THEN <<"d">> \o <<SEP>> \o template(actionName)
         \o <<SEP>> \o template(subActionName)
  ELSE <<"d">> \o <<SEP>> \o template(actionName)

makeKey(namespace, actionName, subActionName) ==
  IF Truthy(subActionName)
  THEN template(namespace) \o <<SEP>> \o template(actionName)
         \o <<SEP>> \o template(subActionName)
  ELSE template(namespace) \o <<SEP>> \o template(actionName)

\* getBaseKey returning the whole key
getBaseKey_whole(key) == key

\* getBaseKey reading the components one index too far
getBaseKey_shifted(key) ==
  LET parts == split(key, SEP)
  IN  template(At(parts, 1)) \o <<SEP>> \o template(At(parts, 2))

getBaseKey(key) ==
  LET parts == split(key, SEP)
  IN  template(At(parts, 0)) \o <<SEP>> \o template(At(parts, 1))

\* getSubKey reading the last component instead of the third
getSubKey_last(key) ==
  LET parts == split(key, SEP)
  IN  IF Len(parts) >= 3 THEN parts[Len(parts)] ELSE undefined

\* getSubKey reading the second component instead of the third
getSubKey_second(key) == At(split(key, SEP), 1)

getSubKey(key) == At(split(key, SEP), 2)

----------------------------------------------------------------------------
(* Definitions given by the caller                                         *)

\* a definition value: t is what the value is, create/async say whether the
\* object has that field, reduce is "none", "function" or "object" (a mapping
\* whose own keys, in order, are subs)
Def(t, create, async, reduce, subs) ==
  [t |-> t, create |-> create, async |-> async, reduce |-> reduce, subs |-> subs]

typeof(definition) ==
  IF definition.t \in {"object", "null", "array"} THEN "object" ELSE definition.t

\* definition.reduce is truthy (an array inherits Array.prototype.reduce)
HasReduce(definition) ==
  \/ definition.t = "object" /\ definition.reduce # "none"
  \/ definition.t = "array"

\* typeof(definition.reduce)
typeofReduce(definition) ==
  IF definition.t = "array" THEN "function"
  ELSE IF definition.reduce = "none" THEN "undefined"
  ELSE definition.reduce

\* the definition values a caller may write under a key
DefValues ==
  {Def("function", FALSE, FALSE, "none", <<>>),
   Def("object", TRUE, FALSE, "function", <<>>),
   Def("object", FALSE, TRUE, "function", <<>>),
   Def("object", FALSE, TRUE, "object", <<(<<"s">>), (<<"t">>)>>),
   Def("object", FALSE, TRUE, "object", <<(<<"s">>), (<<>>)>>),
   Def("object", TRUE, FALSE, "object", <<(<<"s">>)>>),
   Def("object", TRUE, TRUE, "function", <<>>),
   Def("object", FALSE, FALSE, "none", <<>>),
   Def("object", TRUE, FALSE, "none", <<>>),
   Def("object", FALSE, TRUE, "none", <<>>),
   Def("object", TRUE, TRUE, "none", <<>>),
   Def("object", FALSE, FALSE, "function", <<>>),
   Def("object", FALSE, FALSE, "object", <<(<<"s">>)>>),
   Def("null", FALSE, FALSE, "none", <<>>),
   Def("array", FALSE, FALSE, "none", <<>>),
   Def("string", FALSE, FALSE, "none", <<>>),
   Def("number", FALSE, FALSE, "none", <<>>),
   Def("boolean", FALSE, FALSE, "none", <<>>),
   Def("undefined", FALSE, FALSE, "none", <<>>)}

\* director names and transition keys a caller may choose
DirectorNames == {<<"d">>, <<"d", ":", "k">>}

TransitionKeys == {<<"k">>, <<"undefined">>, <<"k", ":", "s">>}

\* Object.keys(definitions): distinct keys in insertion order
KeyLists ==
  {ks \in UNION {[1..n -> TransitionKeys] : n \in 0..MaxDefs} :
     \A i, j \in 1..Len(ks) : i # j => ks[i] # ks[j]}

\* the definitions objects: own keys in order, and the value under each key
DefinitionsObjects ==
  UNION {{[keys |-> ks, vals |-> vs] :
            vs \in [{ks[i] : i \in 1..Len(ks)} -> DefValues]} : ks \in KeyLists}

----------------------------------------------------------------------------
(* Caller-supplied functions                                               *)

\* the identity of the function written at definitions[key] (part
\* "definition"), definitions[key].create, .async, .reduce or .reduce[sub]
Fn(key, part, sub) ==
  key \o <<".", part>> \o (IF sub = undefined THEN <<>> ELSE <<".">> \o sub)

\* the constructor Object, reached through Object.prototype.constructor
ObjectFn == <<"Object">>

\* the definitions of the README's account director
loginFn == Fn(<<"login">>, "definition", undefined)

logoutFn == Fn(<<"logout">>, "definition", undefined)

\* a transition function (state, action) => newState; the caller's functions
\* copy the state, take `value` from the action and leave their own mark, and
\* Object(state, action) returns its first argument when it is an object;
\* login is (state, { username }) => ({ ...state, loggedIn: true, username })
\* and logout is (state) => ({ ...state, loggedIn: false, username: null })
applyReduce(fn, state, action) ==
  IF fn = ObjectFn THEN state
  ELSE IF fn = loginFn
  THEN Spread(state, [f \in {"loggedIn", "username"} |->
                        IF f = "loggedIn" THEN <<"#true">>
                        ELSE Get(action, "username")])
  ELSE IF fn = logoutFn
  THEN Spread(state, [f \in {"loggedIn", "username"} |->
                        IF f = "loggedIn" THEN <<"#false">> ELSE <<"#null">>])
  ELSE Spread(state, [f \in {"value", "by"} |->
                        IF f = "by" THEN fn ELSE Get(action, "value")])

\* a create function payload => newPayload; it exposes the fields `value`
\* and `type` of what it is given and nothing else
applyCreate(fn, payload) ==
  [f \in (DOMAIN payload) \cap {"value", "type"} |-> payload[f]]

\* the outcome of running a piece of code: a value or a thrown error,
\* with the caller-supplied functions it invoked, in order
Return(value, calls) == [kind |-> "return", value |-> value, calls |-> calls]

Throw(error, calls) == [kind |-> "throw", error |-> error, calls |-> calls]

Call(fn, args) == [fn |-> fn, args |-> args]

----------------------------------------------------------------------------
(* constructor(name, definitions)                                          *)

\* registerAction testing async before create
registerAction_asyncFirst(definition) ==
  IF typeof(definition) = "function"
  THEN Return("plain", <<>>)
  ELSE IF typeof(definition) = "object"
  THEN IF definition.t = "null"
       THEN Throw([class |-> "TypeError", message |-> "ReadReduceOfNull"], <<>>)
       ELSE IF ~HasReduce(definition)
       THEN Throw([class |-> "Error", message |-> "ReducerFieldRequired"], <<>>)
       ELSE IF definition.async
       THEN Return("async", <<>>)
       ELSE IF definition.create
       THEN Return("create", <<>>)
       ELSE Throw([class |-> "Error", message |-> "CreateOrAsyncRequired"], <<>>)
  ELSE Throw([class |-> "Error", message |-> "BadDefinitionType",
              given |-> typeof(definition)], <<>>)

\* one iteration of definitionKeys.forEach: the action creator registered
\* for the definition, or the error thrown
registerAction(definition) ==
  IF typeof(definition) = "function"
  THEN Return("plain", <<>>)
  ELSE IF typeof(definition) = "object"
  THEN IF definition.t = "null"
       THEN Throw([class |-> "TypeError", message |-> "ReadReduceOfNull"], <<>>)
       ELSE IF ~HasReduce(definition)
       THEN Throw([class |-> "Error", message |-> "ReducerFieldRequired"], <<>>)
       ELSE IF definition.create
       THEN Return("create", <<>>)
       ELSE IF definition.async
       THEN Return("async", <<>>)
       ELSE Throw([class |-> "Error", message |-> "CreateOrAsyncRequired"], <<>>)
  ELSE Throw([class |-> "Error", message |-> "BadDefinitionType",
              given |-> typeof(definition)], <<>>)

\* definitionKeys.forEach from index i on, actions being this.actions so far
RECURSIVE forEachDefinition(_, _, _, _)
forEachDefinition(defs, definitionKeys, i, actions) ==
  IF i > Len(definitionKeys)
  THEN Return(actions, <<>>)
  ELSE LET key == definitionKeys[i]
           definition == defs.vals[key]
           registered == registerAction(definition)
       IN  IF registered.kind = "throw"
           THEN registered
           ELSE forEachDefinition(defs, definitionKeys, i + 1,
                  [k \in (DOMAIN actions) \cup {key} |->
                     IF k = key
                     THEN [creator |-> registered.value, definition |-> definition]
                     ELSE actions[k]])

\* Constructor going through the definitions from the last to the first
Constructor_backwards(n, defs) ==
  LET definitionKeys == defs.keys
      backwards == [i \in 1..Len(definitionKeys) |->
                      definitionKeys[Len(definitionKeys) + 1 - i]]
      built == forEachDefinition(defs, backwards, 1, EmptyObject)
  IN  IF built.kind = "throw"
      THEN [status |-> "threw", error |-> built.error]
      ELSE [status |-> "ok", name |-> n, definitionKeys |-> definitionKeys,
            actions |-> built.value]

\* new StageDirector(name, definitions): the director, or the error thrown
Constructor(n, defs) ==
  LET definitionKeys == defs.keys
      built == forEachDefinition(defs, definitionKeys, 1, EmptyObject)
  IN  IF built.kind = "throw"
      THEN [status |-> "threw", error |-> built.error]
      ELSE [status |-> "ok", name |-> n, definitionKeys |-> definitionKeys,
            actions |-> built.value]

----------------------------------------------------------------------------
(* this.actions[key](payload)                                              *)

\* the default parameter `payload = {}` applied to the argument list
payloadOf(args) == IF Len(args) >= 1 THEN args[1] ELSE EmptyObject

\* plainCreator with the spread after the type, so a payload type wins
plainCreator_typeFirst(n, key, args) ==
  LET payload == payloadOf(args)
  IN  Return(Spread([f \in {"type"} |-> makeKey(n, key, undefined)], payload),
             <<>>)

\* the action creator of a function-valued definition
plainCreator(n, key, args) ==
  LET payload == payloadOf(args)
  IN  Return(Spread(payload, [f \in {"type"} |-> makeKey(n, key, undefined)]),
             <<>>)

\* createCreator that also spreads the raw payload into the action
createCreator_keepsPayload(n, key, args) ==
  LET payload == payloadOf(args)
      fn == Fn(key, "create", undefined)
  IN  Return(Spread(Spread(payload, applyCreate(fn, payload)),
                    [f \in {"type"} |-> makeKey(n, key, undefined)]),
             <<Call(fn, <<payload>>)>>)

\* the action creator of an object definition with a create directive
createCreator(n, key, args) ==
  LET payload == payloadOf(args)
      fn == Fn(key, "create", undefined)
  IN  Return(Spread(applyCreate(fn, payload),
                    [f \in {"type"} |-> makeKey(n, key, undefined)]),
             <<Call(fn, <<payload>>)>>)

\* the action creator of an object definition with an async directive: it
\* returns a function of (dispatch, getState) that remembers key and payload
asyncCreator(n, key, args) ==
  LET payload == payloadOf(args)
  IN  Return([thunk |-> key, payload |-> payload], <<>>)

\* director.actions[key](...args)
actionCreator(dir, key, args) ==
  LET creator == dir.actions[key].creator
  IN  IF creator = "plain" THEN plainCreator(dir.name, key, args)
      ELSE IF creator = "create" THEN createCreator(dir.name, key, args)
      ELSE asyncCreator(dir.name, key, args)

----------------------------------------------------------------------------
(* this.reducer(state, payload)                                            *)

\* definition.reduce[subkey]: an own property of the mapping, else a property
\* inherited from Object.prototype, else undefined
lookupSubreducer(key, definition, subkey) ==
  IF \E i \in 1..Len(definition.subs) : definition.subs[i] = subkey
  THEN Fn(key, "reduce", subkey)
  ELSE IF subkey \in ObjectPrototypeKeys
  THEN ObjectFn
  ELSE undefined

\* subreduce that ignores a missing or unknown sub key instead of throwing
subreduce_noMissingCheck(key, definition, state, payload) ==
  LET subkey == getSubKey(payload.type)
      fn == lookupSubreducer(key, definition, subkey)
  IN  IF fn = undefined
      THEN Return(state, <<>>)
      ELSE Return(applyReduce(fn, state, payload),
                  <<Call(fn, <<state, payload>>)>>)

\* subreduce running the first sub-reducer when the type names none
subreduce_firstByDefault(key, definition, state, payload) ==
  LET subreducerKeys == definition.subs
      subkey == IF Truthy(getSubKey(payload.type))
                THEN getSubKey(payload.type) ELSE subreducerKeys[1]
  IN  IF lookupSubreducer(key, definition, subkey) = undefined
      THEN Throw([class |-> "Error", message |-> "UnknownSubkey",
                  type |-> payload.type, subkey |-> subkey,
                  names |-> join(subreducerKeys, ",")], <<>>)
      ELSE LET fn == lookupSubreducer(key, definition, subkey)
           IN  Return(applyReduce(fn, state, payload),
                      <<Call(fn, <<state, payload>>)>>)

\* routing within a reduce mapping: the sub-reducer named by the third
\* component of the type, or the error thrown
subreduce(key, definition, state, payload) ==
  LET subreducerKeys == definition.subs
      subkey == getSubKey(payload.type)
  IN  IF ~Truthy(subkey)
      THEN Throw([class |-> "Error", message |-> "NoSubreducer",
                  type |-> payload.type,
                  names |-> join(subreducerKeys, ",")], <<>>)
      ELSE IF lookupSubreducer(key, definition, subkey) = undefined
      THEN Throw([class |-> "Error", message |-> "UnknownSubkey",
                  type |-> payload.type, subkey |-> subkey,
                  names |-> join(subreducerKeys, ",")], <<>>)
      ELSE LET fn == lookupSubreducer(key, definition, subkey)
           IN  Return(applyReduce(fn, state, payload),
                      <<Call(fn, <<state, payload>>)>>)

\* reduceWith calling the transition function without the action
reduceWith_noAction(key, definition, state, payload) ==
  IF typeof(definition) = "function"
  THEN LET fn == Fn(key, "definition", undefined)
       IN  Return(applyReduce(fn, state, EmptyObject), <<Call(fn, <<state>>)>>)
  ELSE IF typeofReduce(definition) = "function"
  THEN LET fn == Fn(key, "reduce", undefined)
       IN  Return(applyReduce(fn, state, EmptyObject), <<Call(fn, <<state>>)>>)
  ELSE subreduce(key, definition, state, payload)

\* the body of the if inside the loop: the definition under key was
\* selected. Reading .reduce of undefined or null throws, an array's reduce
\* is Array.prototype.reduce, which rejects the state as its callback, and
\* Object.keys of a missing reduce throws
reduceWith(key, definition, state, payload) ==
  IF typeof(definition) = "function"
  THEN LET fn == Fn(key, "definition", undefined)
       IN  Return(applyReduce(fn, state, payload), <<Call(fn, <<state, payload>>)>>)
  ELSE IF definition.t \in {"undefined", "null"}
  THEN Throw([class |-> "TypeError", message |-> "ReadReduceOfNull"], <<>>)
  ELSE IF definition.t = "array"
  THEN Throw([class |-> "TypeError", message |-> "StateIsNotAFunction"], <<>>)
  ELSE IF typeofReduce(definition) = "function"
  THEN LET fn == Fn(key, "reduce", undefined)
       IN  Return(applyReduce(fn, state, payload), <<Call(fn, <<state, payload>>)>>)
  ELSE IF typeofReduce(definition) = "undefined"
  THEN Throw([class |-> "TypeError", message |-> "ObjectKeysOfUndefined"], <<>>)
  ELSE subreduce(key, definition, state, payload)

\* definitions[key] as the caller's object holds it now, undefined when the
\* key is gone
definitionAt(defs, key) ==
  IF key \in DOMAIN defs.vals THEN defs.vals[key]
  ELSE Def("undefined", FALSE, FALSE, "none", <<>>)

\* the for loop over definitionKeys from index i on
RECURSIVE reducerLoop(_, _, _, _, _)
reducerLoop(dir, defs, state, payload, i) ==
  IF i > Len(dir.definitionKeys)
  THEN Return(state, <<>>)
  ELSE LET key == dir.definitionKeys[i]
           definition == definitionAt(defs, key)
           baseType == getBaseKey(payload.type)
       IN  IF baseType = makeKey(dir.name, key, undefined)
           THEN reduceWith(key, definition, state, payload)
           ELSE reducerLoop(dir, defs, state, payload, i + 1)

\* the default parameter `state = {}`
stateOf(state) == IF state = undefinedObject THEN EmptyObject ELSE state

\* director.reducer(state, payload), defs being the definitions object the
\* constructor was given
reducer(dir, defs, state, payload) ==
  reducerLoop(dir, defs, stateOf(state), payload, 1)

----------------------------------------------------------------------------
(* The function an async action creator returns, and its done callbacks     *)

\* the object spread { ...innerPayload } of a callback's argument list: an
\* omitted argument spreads to nothing
innerPayloadOf(args) == IF Len(args) >= 1 THEN args[1] ELSE EmptyObject

\* a completion callback (innerPayload) => dispatch({...}): the closure keeps
\* dispatch, the director name, the key and the reduce key (undefined for
\* the single callback of a reduce function)
Callback(dispatch, n, key, reduceKey) ==
  [dispatch |-> dispatch, namespace |-> n, actionName |-> key,
   subActionName |-> reduceKey]

\* callCallback with the spread after the type, so a payload type wins
callCallback_typeFirst(callback, args) ==
  <<[dispatch |-> callback.dispatch,
     action |-> Spread([f \in {"type"} |->
                          makeKey(callback.namespace, callback.actionName,
                                  callback.subActionName)],
                       innerPayloadOf(args))]>>

\* calling a completion callback with args: the dispatch calls it makes,
\* in order
callCallback(callback, args) ==
  <<[dispatch |-> callback.dispatch,
     action |-> Spread(innerPayloadOf(args),
                       [f \in {"type"} |->
                          makeKey(callback.namespace, callback.actionName,
                                  callback.subActionName)])]>>

\* the sub-transition names of a reduce mapping
subNames(definition) == {definition.subs[i] : i \in 1..Len(definition.subs)}

\* the value handed to the async logic as `done`: one callback when reduce
\* is a function, else an object with one callback per key of reduce
doneFor(n, key, definition, dispatch) ==
  IF typeofReduce(definition) = "function"
  THEN [flat |-> TRUE, callback |-> Callback(dispatch, n, key, undefined)]
  ELSE [flat |-> FALSE,
        callbacks |->
          [reduceKey \in {definition.subs[i] : i \in 1..Len(definition.subs)} |->
             Callback(dispatch, n, key, reduceKey)]]

\* invokeThunk handing the async logic (done, payload, getState, dispatch)
invokeThunk_swapped(dir, thunk, dispatch, getState) ==
  LET key == thunk.thunk
      definition == dir.actions[key].definition
      done == doneFor(dir.name, key, definition, dispatch)
  IN  Return(undefinedObject,
             <<Call(Fn(key, "async", undefined),
                    <<done, thunk.payload, getState, dispatch>>)>>)

\* thunk(dispatch, getState), thunk being what the async action creator of
\* dir returned: the async logic is called with (done, payload, dispatch,
\* getState); nothing is returned
invokeThunk(dir, thunk, dispatch, getState) ==
  LET key == thunk.thunk
      definition == dir.actions[key].definition
      done == doneFor(dir.name, key, definition, dispatch)
  IN  Return(undefinedObject,
             <<Call(Fn(key, "async", undefined),
                    <<done, thunk.payload, dispatch, getState>>)>>)

----------------------------------------------------------------------------
(* The store the director is installed in                                  *)

\* store.dispatch(action) for a plain action: the root reducer runs on the
\* current state; when it throws the state stays and the error reaches the
\* caller of dispatch
storeDispatch(dir, defs, state, action) ==
  LET reduced == reducer(dir, defs, state, action)
  IN  [state |-> IF reduced.kind = "return" THEN reduced.value ELSE state,
       outcome |-> reduced]

\* the dispatch calls of one callback invocation, performed in order from
\* index i on: the state reached and the outcome of every dispatch
RECURSIVE dispatchAll(_, _, _, _, _, _)
dispatchAll(dir, defs, state, dispatches, i, outcomes) ==
  IF i > Len(dispatches)
  THEN [state |-> state, outcomes |-> outcomes]
  ELSE LET step == storeDispatch(dir, defs, state, dispatches[i].action)
       IN  dispatchAll(dir, defs, step.state, dispatches, i + 1,
                       Append(outcomes, step.outcome))

\* deliver that drops the dispatch calls
deliver_dropping(dir, defs, state, dispatches) ==
  [state |-> state, outcomes |-> <<>>]

\* the dispatch calls a callback made reach the store one after the other
deliver(dir, defs, state, dispatches) ==
  dispatchAll(dir, defs, state, dispatches, 1, <<>>)

----------------------------------------------------------------------------
(* StageDirector.combine(directors, customCombine)                         *)

null == <<"#null">>

\* redux's combineReducers, the default combining function
combineReducersFn == <<"combineReducers">>

\* a director instance: the constructed director and the definitions object
\* its reducer closes over
Instance(dir, defs) == [dir |-> dir, defs |-> defs]

\* instance.reducer, a function value
reducerOf(instance) == [director |-> instance.dir, definitions |-> instance.defs]

\* state[key] of a composite state, undefined when the state or the slice
\* is absent
sliceOf(state, key) ==
  IF state # undefinedObject /\ key \in DOMAIN state THEN state[key]
  ELSE undefinedObject

\* the reducer combineReducers(reducers) returns, applied to (state, action)
\* from the slice at index i on: every reducer gets its own slice and the
\* action, and the results are assembled under the same keys; calls are
\* marked with the slice whose director made them
RECURSIVE combination(_, _, _, _, _, _)
combination(reducers, state, action, i, nextState, calls) ==
  IF i > Len(reducers.keys)
  THEN Return(nextState, calls)
  ELSE LET key == reducers.keys[i]
           r == reducers.vals[key]
           reduced == reducer(r.director, r.definitions, sliceOf(state, key),
                              action)
           made == calls \o [j \in 1..Len(reduced.calls) |->
                               [slice |-> key, call |-> reduced.calls[j]]]
       IN  IF reduced.kind = "throw"
           THEN Throw(reduced.error, made)
           ELSE combination(reducers, state, action, i + 1,
                            Spread(nextState,
                                   [k \in {key} |-> reduced.value]),
                            made)

\* combined.reducer(state, action) for the reducer the default combining
\* function returned
combinedReducer(combined, state, action) ==
  combination(combined.reducers, state, action, 1, EmptyObject, <<>>)

\* combine that refuses two directors of the same name
combine_uniqueNames(directors, customCombine) ==
  LET keys == {directors.keys[i] : i \in 1..Len(directors.keys)}
      actions == [key \in keys |-> directors.vals[key].dir.actions]
      reducers == [keys |-> directors.keys,
                   vals |-> [key \in keys |-> reducerOf(directors.vals[key])]]
      custom == IF customCombine = undefined THEN null ELSE customCombine
      combinator == IF custom # null /\ Truthy(custom) THEN custom
                    ELSE combineReducersFn
  IN  IF \E a, b \in keys :
           a # b /\ directors.vals[a].dir.name = directors.vals[b].dir.name
      THEN Throw([name |-> "Error", message |-> "DuplicateName"], <<>>)
      ELSE Return([actions |-> actions,
                   reducer |-> [combinator |-> combinator,
                                reducers |-> reducers]],
                  <<Call(combinator, <<reducers>>)>>)

\* combine that hands every slice the reducer of the first director
combine_firstReducer(directors, customCombine) ==
  LET keys == {directors.keys[i] : i \in 1..Len(directors.keys)}
      actions == [key \in keys |-> directors.vals[key].dir.actions]
      reducers == [keys |-> directors.keys,
                   vals |-> [key \in keys |->
                               reducerOf(directors.vals[directors.keys[1]])]]
      custom == IF customCombine = undefined THEN null ELSE customCombine
      combinator == IF custom # null /\ Truthy(custom) THEN custom
                    ELSE combineReducersFn
  IN  Return([actions |-> actions,
              reducer |-> [combinator |-> combinator, reducers |-> reducers]],
             <<Call(combinator, <<reducers>>)>>)

\* combine that always uses combineReducers
combine_alwaysDefault(directors, customCombine) ==
  LET keys == {directors.keys[i] : i \in 1..Len(directors.keys)}
      actions == [key \in keys |-> directors.vals[key].dir.actions]
      reducers == [keys |-> directors.keys,
                   vals |-> [key \in keys |-> reducerOf(directors.vals[key])]]
  IN  Return([actions |-> actions,
              reducer |-> [combinator |-> combineReducersFn,
                           reducers |-> reducers]],
             <<Call(combineReducersFn, <<reducers>>)>>)

\* StageDirector.combine(directors, customCombine): the actions and reducers
\* mappings are filled key by key, and (customCombine || combineReducers) is
\* called on reducers; its result is the reducer
combine(directors, customCombine) ==
  LET keys == {directors.keys[i] : i \in 1..Len(directors.keys)}
      actions == [key \in keys |-> directors.vals[key].dir.actions]
      reducers == [keys |-> directors.keys,
                   vals |-> [key \in keys |-> reducerOf(directors.vals[key])]]
      custom == IF customCombine = undefined THEN null ELSE customCombine
      combinator == IF custom # null /\ Truthy(custom) THEN custom
                    ELSE combineReducersFn
  IN  Return([actions |-> actions,
              reducer |-> [combinator |-> combinator, reducers |-> reducers]],
             <<Call(combinator, <<reducers>>)>>)

\* the action store.dispatch receives from a completion callback of the
\* async definition under key of dir, called with args
doneAction(dir, key, reduceKey, args) ==
  LET done == doneFor(dir.name, key, dir.actions[key].definition, "dispatch")
      callback == IF done.flat THEN done.callback
                  ELSE done.callbacks[reduceKey]
  IN  callCallback(callback, args)[1].action

----------------------------------------------------------------------------
(* The caller's definitions object after construction                      *)

\* definitions[key] = value: a new key goes last
assign(defs, key, value) ==
  [keys |-> IF key \in DOMAIN defs.vals THEN defs.keys
            ELSE Append(defs.keys, key),
   vals |-> [k \in DOMAIN defs.vals \cup {key} |->
               IF k = key THEN value ELSE defs.vals[k]]]

\* delete definitions[key]
delete(defs, key) ==
  [keys |-> SelectSeq(defs.keys, LAMBDA k : k # key),
   vals |-> [k \in DOMAIN defs.vals \ {key} |-> defs.vals[k]]]

\* the definitions as the constructor of dir saw them
constructedFrom(dir) ==
  [keys |-> dir.definitionKeys,
   vals |-> [k \in DOMAIN dir.actions |-> dir.actions[k].definition]]

----------------------------------------------------------------------------
(* Inputs                                                                  *)

\* payloads handed to action creators
Payloads ==
  UNION {[fs -> {<<"v">>}] : fs \in SUBSET {"value", "extra", "type"}}

\* argument lists of an action creator call
ArgLists ==
  {<<>>} \cup {<<p>> : p \in Payloads}
         \cup {<<p, [f \in {"value"} |-> <<"w">>]>> : p \in {EmptyObject}}

\* argument lists of a completion callback call
DoneArgLists ==
  {<<>>, <<[f \in {"value"} |-> <<"v">>]>>,
   <<[f \in {"value", "type"} |-> <<"v">>]>>}

\* argument lists of an async action creator call
ThunkArgLists == {<<>>, <<[f \in {"value", "type"} |-> <<"v">>]>>}

\* the definitions objects of a store director: an async definition, alone
\* or next to one other definition, before or after it
AsyncDefinitionsObjects ==
  {defs \in UNION {{[keys |-> ks, vals |-> vs] :
                      vs \in [{ks[i] : i \in 1..Len(ks)} -> DefValues]} :
                   ks \in {l \in KeyLists : Len(l) \in {1, 2}}} :
     \E key \in DOMAIN defs.vals :
       registerAction(defs.vals[key]) = Return("async", <<>>)}

\* states handed to the reducer
States == {undefinedObject, EmptyObject, [f \in {"value"} |-> <<"u">>]}

\* action types handed to the reducer: one up to four components
TypeParts3 == {<<"s">>, <<"t">>, <<"constructor">>, <<>>}

ActionTypes ==
  {<<"d">>, <<"d", ":", "k">>, <<"d", ":", "undefined">>,
   <<"d", ":", "undefined", ":", "s">>, <<"d", ":", "k", ":", "k">>,
   <<"d", ":", "k", ":", "k", ":", "s">>, <<"e", ":", "k">>,
   <<"e", ":", "k", ":", "s">>}
    \cup {<<"d", ":", "k", ":">> \o c : c \in TypeParts3}
    \cup {<<"d", ":", "k", ":">> \o c \o <<":">> \o c : c \in TypeParts3}

\* actions handed to the reducer
ReducerActions ==
  {Spread(p, [f \in {"type"} |-> t]) :
     p \in {EmptyObject, [f \in {"value"} |-> <<"v">>]}, t \in ActionTypes}

\* the directors of a composition: one transition each
CombineNames == {<<"d">>, <<"e">>}

CombineDefValues ==
  {Def("function", FALSE, FALSE, "none", <<>>),
   Def("object", TRUE, FALSE, "function", <<>>),
   Def("object", FALSE, TRUE, "function", <<>>),
   Def("object", FALSE, TRUE, "object", <<(<<"s">>), (<<"t">>)>>)}

CombineInstances ==
  {Instance(Constructor(n, [keys |-> <<key>>,
                            vals |-> [k \in {key} |-> definition]]),
            [keys |-> <<key>>, vals |-> [k \in {key} |-> definition]]) :
     n \in CombineNames, key \in TransitionKeys,
     definition \in CombineDefValues}

\* the directors argument of combine: slice keys in order, and the director
\* under each
DirectorsObjects ==
  UNION {{[keys |-> ks, vals |-> vs] :
            vs \in [{ks[i] : i \in 1..Len(ks)} -> CombineInstances]} :
         ks \in {<<"a">>, <<"a", "b">>}}

\* the customCombine argument: left out, null, or a function
CustomCombines == {undefined, null, <<"customCombine">>}

\* composite states: every slice present or absent
CompositeStates ==
  UNION {[ks -> {EmptyObject, [f \in {"value"} |-> <<"u">>]}] :
           ks \in SUBSET {"a", "b"}}

\* actions handed to a combined reducer
CombinedActions ==
  {Spread(p, [f \in {"type"} |-> t]) :
     p \in {EmptyObject, [f \in {"value"} |-> <<"v">>]},
     t \in {<<"d">>, <<"d", ":", "k">>, <<"d", ":", "k", ":", "s">>,
            <<"d", ":", "undefined">>, <<"e", ":", "k">>}}

\* the README's account director
AccountName == <<"account">>

AccountDefinitions ==
  [keys |-> <<(<<"login">>), (<<"logout">>)>>,
   vals |-> [key \in {<<"login">>, <<"logout">>} |->
               Def("function", FALSE, FALSE, "none", <<>>)]]

Usernames == {<<"bob">>, <<"alice">>, <<"carol">>}

\* payloads of actions.login: a username, with or without other fields
LoginPayloads ==
  {Spread(extra, [f \in {"username"} |-> u]) :
     u \in Usernames,
     extra \in UNION {[fs -> {<<"x">>}] : fs \in SUBSET {"loggedIn", "type"}}}

\* the definitions objects of a director whose caller changes them later:
\* one valid definition
FixedDefinitionsObjects ==
  {[keys |-> <<key>>, vals |-> [k \in {key} |-> definition]] :
     key \in TransitionKeys, definition \in CombineDefValues}

\* the values a caller writes into the definitions object later
LaterDefValues ==
  CombineDefValues
    \cup {Def("null", FALSE, FALSE, "none", <<>>),
          Def("array", FALSE, FALSE, "none", <<>>),
          Def("object", TRUE, FALSE, "none", <<>>)}

----------------------------------------------------------------------------
(* The caller's steps                                                      *)

NoDirector == [status |-> "none"]

Init ==
  /\ definitions = [keys |-> <<>>, vals |-> EmptyObject]
  /\ director = NoDirector
  /\ last = [op |-> "none"]
  /\ store = EmptyObject
  /\ running = <<>>
  /\ called = 0
  /\ dispatched = 0
  /\ composite = NoDirector

\* const director = new StageDirector(n, defs)
Construct ==
  /\ director.status = "none"
  /\ last.op = "none"
  /\ \E n \in DirectorNames, defs \in DefinitionsObjects :
       /\ definitions' = defs
       /\ director' = Constructor(n, defs)
       /\ last' = [op |-> "construct"]
  /\ UNCHANGED <<store, running, called, dispatched, composite>>

\* the caller has looked at the outcome of its last call and goes on
Continue ==
  /\ last.op \notin {"none", "idle"}
  /\ last' = [op |-> "idle"]
  /\ UNCHANGED <<definitions, director, store, running, called, dispatched,
               composite>>

\* director.actions[key](...args)
CallActionCreator ==
  /\ director.status = "ok"
  /\ last.op = "idle"
  /\ \E key \in DOMAIN director.actions, args \in ArgLists :
       last' = [op |-> "create", key |-> key, args |-> args,
                result |-> actionCreator(director, key, args)]
  /\ UNCHANGED <<definitions, director, store, running, called, dispatched,
               composite>>

\* director.reducer(state, action)
Reduce ==
  /\ director.status = "ok"
  /\ last.op = "idle"
  /\ \E state \in States, action \in ReducerActions :
       last' = [op |-> "reduce", state |-> state, action |-> action,
                result |-> reducer(director, definitions, state, action)]
  /\ UNCHANGED <<definitions, director, store, running, called, dispatched,
               composite>>

\* director.reducer(state, director.actions[key](...args)) for an action
\* creator that returns a plain action
Dispatch ==
  /\ director.status = "ok"
  /\ last.op = "idle"
  /\ \E key \in DOMAIN director.actions, args \in ArgLists, state \in States :
       /\ director.actions[key].creator # "async"
       /\ LET created == actionCreator(director, key, args)
          IN  last' = [op |-> "dispatch", key |-> key, args |-> args,
                       state |-> state, created |-> created,
                       result |-> reducer(director, definitions, state,
                                          created.value)]
  /\ UNCHANGED <<definitions, director, store, running, called, dispatched,
               composite>>

\* const director = new StageDirector(n, defs), installed in a store with
\* the thunk middleware and the initial state {}
ConstructAsync ==
  /\ director.status = "none"
  /\ last.op = "none"
  /\ \E n \in DirectorNames, defs \in AsyncDefinitionsObjects :
       /\ definitions' = defs
       /\ director' = Constructor(n, defs)
       /\ last' = [op |-> "construct"]
  /\ UNCHANGED <<store, running, called, dispatched, composite>>

\* director.actions[key](...args) for an async definition
CreateThunk ==
  /\ director.status = "ok"
  /\ last.op = "idle"
  /\ \E key \in DOMAIN director.actions, args \in ThunkArgLists :
       /\ director.actions[key].creator = "async"
       /\ last' = [op |-> "create", key |-> key, args |-> args,
                   result |-> actionCreator(director, key, args)]
  /\ UNCHANGED <<definitions, director, store, running, called, dispatched,
               composite>>

\* thunk(dispatch, getState): the store's middleware runs the function the
\* last action creator call returned, or runs it once more; the async logic
\* that was called keeps its done
InvokeThunk ==
  /\ director.status = "ok"
  /\ last.op \in {"create", "thunk"}
  /\ director.actions[last.key].creator = "async"
  /\ Len(running) < MaxThunks
  /\ LET thunk == IF last.op = "create" THEN last.result.value ELSE last.thunk
         result == invokeThunk(director, thunk, "dispatch", "getState")
     IN  /\ last' = [op |-> "thunk", key |-> last.key, args |-> last.args,
                     thunk |-> thunk, result |-> result]
         /\ running' = running
                         \o [j \in 1..Len(result.calls) |->
                               [key |-> last.key,
                                done |-> result.calls[j].args[1]]]
  /\ UNCHANGED <<definitions, director, store, called, dispatched, composite>>

\* the async logic of a running invocation calls done(...args) when done is
\* a function, or done[reduceKey](...args) for a key of done; the callback
\* dispatches to the store
CallDone ==
  /\ director.status = "ok"
  /\ last.op = "idle"
  /\ called < MaxDone
  /\ \E i \in 1..Len(running), args \in DoneArgLists :
       LET done == running[i].done
       IN  \E reduceKey \in (IF done.flat THEN {undefined}
                             ELSE DOMAIN done.callbacks) :
             LET callback == IF done.flat THEN done.callback
                             ELSE done.callbacks[reduceKey]
                 dispatches == callCallback(callback, args)
                 after == deliver(director, definitions, store, dispatches)
             IN  /\ last' = [op |-> "done", key |-> running[i].key,
                             done |-> done, sub |-> reduceKey,
                             args |-> args, state |-> store,
                             dispatches |-> dispatches,
                             outcomes |-> after.outcomes]
                 /\ store' = after.state
                 /\ called' = called + 1
                 /\ dispatched' = dispatched + Len(after.outcomes)
  /\ UNCHANGED <<definitions, director, running, composite>>

\* const root = StageDirector.combine(directors, customCombine)
Combine ==
  /\ composite.status = "none"
  /\ director.status = "none"
  /\ last.op = "none"
  /\ \E directors \in DirectorsObjects, customCombine \in CustomCombines :
       /\ composite' = [status |-> "ok", directors |-> directors,
                        customCombine |-> customCombine,
                        result |-> combine(directors, customCombine)]
       /\ last' = [op |-> "combine"]
  /\ UNCHANGED <<definitions, director, store, running, called, dispatched>>

\* root.reducer(state, action), root.reducer coming from combineReducers
CombinedReduce ==
  /\ composite.status = "ok"
  /\ last.op = "idle"
  /\ composite.result.value.reducer.combinator = combineReducersFn
  /\ \E state \in CompositeStates, action \in CombinedActions :
       last' = [op |-> "combinedReduce", state |-> state, action |-> action,
                result |-> combinedReducer(composite.result.value.reducer,
                                           state, action)]
  /\ UNCHANGED <<definitions, director, store, running, called, dispatched,
               composite>>

\* root.reducer(state, root.actions[slice][key](...args)) for an action
\* creator that returns an action
CombinedDispatchCreated ==
  /\ composite.status = "ok"
  /\ last.op = "idle"
  /\ composite.result.value.reducer.combinator = combineReducersFn
  /\ \E slice \in DOMAIN composite.result.value.actions,
        state \in CompositeStates, args \in ThunkArgLists :
       \E key \in DOMAIN composite.result.value.actions[slice] :
         LET dir == composite.directors.vals[slice].dir
             created == actionCreator(dir, key, args)
         IN  /\ dir.actions[key].creator # "async"
             /\ last' = [op |-> "combinedDispatch", slice |-> slice,
                         key |-> key, state |-> state,
                         action |-> created.value,
                         result |-> combinedReducer(
                                      composite.result.value.reducer, state,
                                      created.value)]
  /\ UNCHANGED <<definitions, director, store, running, called, dispatched,
               composite>>

\* root.reducer(state, action), action being what a completion callback of
\* an async definition of the director under slice dispatched
CombinedDispatchDone ==
  /\ composite.status = "ok"
  /\ last.op = "idle"
  /\ composite.result.value.reducer.combinator = combineReducersFn
  /\ \E slice \in DOMAIN composite.result.value.actions,
        state \in CompositeStates, args \in DoneArgLists :
       \E key \in DOMAIN composite.result.value.actions[slice] :
         LET dir == composite.directors.vals[slice].dir
             definition == dir.actions[key].definition
         IN  /\ dir.actions[key].creator = "async"
             /\ \E reduceKey \in
                     (IF typeofReduce(definition) = "function"
                      THEN {undefined} ELSE subNames(definition)) :
                  LET action == doneAction(dir, key, reduceKey, args)
                  IN  last' = [op |-> "combinedDispatch", slice |-> slice,
                               key |-> key, state |-> state,
                               action |-> action,
                               result |-> combinedReducer(
                                            composite.result.value.reducer,
                                            state, action)]
  /\ UNCHANGED <<definitions, director, store, running, called, dispatched,
               composite>>

\* const account = new StageDirector("account", { login, logout }), its
\* reducer installed in a store whose state is {}
ConstructAccount ==
  /\ director.status = "none"
  /\ composite.status = "none"
  /\ last.op = "none"
  /\ definitions' = AccountDefinitions
  /\ director' = Constructor(AccountName, AccountDefinitions)
  /\ last' = [op |-> "construct"]
  /\ UNCHANGED <<store, running, called, dispatched, composite>>

\* store.dispatch(account.actions.login(payload))
DispatchLogin ==
  /\ director.status = "ok"
  /\ director.name = AccountName
  /\ last.op = "idle"
  /\ dispatched < MaxSteps
  /\ \E payload \in LoginPayloads :
       LET action == actionCreator(director, <<"login">>, <<payload>>).value
           step == storeDispatch(director, definitions, store, action)
       IN  /\ last' = [op |-> "login", payload |-> payload,
                       action |-> action, state |-> store,
                       result |-> step.outcome]
           /\ store' = step.state
  /\ dispatched' = dispatched + 1
  /\ UNCHANGED <<definitions, director, running, called, composite>>

\* store.dispatch(account.actions.logout())
DispatchLogout ==
  /\ director.status = "ok"
  /\ director.name = AccountName
  /\ last.op = "idle"
  /\ dispatched < MaxSteps
  /\ LET action == actionCreator(director, <<"logout">>, <<>>).value
         step == storeDispatch(director, definitions, store, action)
     IN  /\ last' = [op |-> "logout", action |-> action, state |-> store,
                     result |-> step.outcome]
         /\ store' = step.state
  /\ dispatched' = dispatched + 1
  /\ UNCHANGED <<definitions, director, running, called, composite>>

\* const director = new StageDirector(n, defs), the caller keeping defs
ConstructFixed ==
  /\ director.status = "none"
  /\ composite.status = "none"
  /\ last.op = "none"
  /\ \E n \in DirectorNames, defs \in FixedDefinitionsObjects :
       /\ definitions' = defs
       /\ director' = Constructor(n, defs)
       /\ last' = [op |-> "construct"]
  /\ UNCHANGED <<store, running, called, dispatched, composite>>

\* the caller replaces, adds or removes an entry of the definitions object
\* it gave to the constructor: defs[key] = value or delete defs[key]
MutateDefinitions ==
  /\ director.status = "ok"
  /\ last.op = "idle"
  /\ definitions = constructedFrom(director)
  /\ \E key \in TransitionKeys :
       \/ \E value \in LaterDefValues :
            /\ assign(definitions, key, value) # definitions
            /\ definitions' = assign(definitions, key, value)
       \/ /\ key \in DOMAIN definitions.vals
          /\ definitions' = delete(definitions, key)
  /\ last' = [op |-> "mutate"]
  /\ UNCHANGED <<director, store, running, called, dispatched, composite>>

\* director.reducer(state, action), action being what a completion
\* callback of an async definition dispatched when called with args
ReduceDone ==
  /\ director.status = "ok"
  /\ last.op = "idle"
  /\ \E key \in DOMAIN director.actions, args \in DoneArgLists,
        state \in States :
       LET definition == director.actions[key].definition
       IN  /\ director.actions[key].creator = "async"
           /\ \E reduceKey \in
                   (IF typeofReduce(definition) = "function"
                    THEN {undefined} ELSE subNames(definition)) :
                LET action == doneAction(director, key, reduceKey, args)
                IN  last' = [op |-> "reduceDone", key |-> key,
                             sub |-> reduceKey, args |-> args,
                             state |-> state, action |-> action,
                             result |-> reducer(director, definitions, state,
                                                action)]
  /\ UNCHANGED <<definitions, director, store, running, called, dispatched,
               composite>>

Next == Construct \/ Continue \/ CallActionCreator \/ Reduce \/ Dispatch

Spec == Init /\ [][Next]_vars

\* a director installed in a store with the thunk middleware
NextStore ==
  ConstructAsync \/ Continue \/ CreateThunk \/ InvokeThunk \/ CallDone

SpecStore == Init /\ [][NextStore]_vars

NextCombine ==
  Combine \/ Continue \/ CombinedReduce \/ CombinedDispatchCreated
    \/ CombinedDispatchDone

SpecCombine == Init /\ [][NextCombine]_vars

NextMutate ==
  ConstructFixed \/ Continue \/ MutateDefinitions \/ CallActionCreator
    \/ Reduce \/ Dispatch

SpecMutate == Init /\ [][NextMutate]_vars

NextNames ==
  Construct \/ Continue \/ CallActionCreator \/ Reduce \/ Dispatch
    \/ ReduceDone

SpecNames == Init /\ [][NextNames]_vars

NextAccount ==
  ConstructAccount \/ Continue \/ DispatchLogin \/ DispatchLogout

SpecAccount == Init /\ [][NextAccount]_vars

----------------------------------------------------------------------------
(* Claims                                                                  *)

\* C1: a reducer call with a state and an action whose type is neither
\* "<name>:<key>" nor "<name>:<key>:..." for any key of the director returns
\* the state it was given, calls no caller-supplied function and throws
\* nothing.
C1_Irrelevance ==
  (/\ last.op = "reduce"
   /\ last.state # undefinedObject
   /\ \A i \in 1..Len(director.definitionKeys) :
        LET wanted == director.name \o <<":">> \o director.definitionKeys[i]
            type == last.action.type
        IN  /\ type # wanted
            /\ ~(/\ Len(type) > Len(wanted)
                 /\ SubSeq(type, 1, Len(wanted) + 1) = wanted \o <<":">>))
  => /\ last.result.kind = "return"
     /\ last.result.value = last.state
     /\ last.result.calls = <<>>

\* C2 (as stated): for every transition X whose action creator returns an
\* action, reducer(state, actions.X(payload)) returns what X's transition
\* function returns for (state, {...payload, type: "<name>:X"}).
C2_RoundTrip ==
  (last.op = "dispatch" /\ last.state # undefinedObject) =>
    LET key == last.key
        fn == IF definitions.vals[key].t = "function"
              THEN Fn(key, "definition", undefined)
              ELSE Fn(key, "reduce", undefined)
        payload == IF Len(last.args) = 0 THEN EmptyObject ELSE last.args[1]
        action == Spread(payload,
                         [f \in {"type"} |-> director.name \o <<":">> \o key])
    IN  /\ last.result.kind = "return"
        /\ last.result.value = applyReduce(fn, last.state, action)

\* C2 (amended): when neither the director name nor the key X contains ":",
\* the round trip holds for a function-valued X, and for a structured X with
\* create and a single reduce function it holds with create(payload) in
\* place of payload; the transition function is called exactly once.
C2_RoundTripAmended ==
  (/\ last.op = "dispatch"
   /\ last.state # undefinedObject
   /\ \A i \in 1..Len(director.name) : director.name[i] # ":"
   /\ \A i \in 1..Len(last.key) : last.key[i] # ":"
   /\ \/ definitions.vals[last.key].t = "function"
      \/ /\ definitions.vals[last.key].create
         /\ definitions.vals[last.key].reduce = "function")
  => LET key == last.key
         plain == definitions.vals[key].t = "function"
         fn == IF plain THEN Fn(key, "definition", undefined)
               ELSE Fn(key, "reduce", undefined)
         given == IF Len(last.args) = 0 THEN EmptyObject ELSE last.args[1]
         payload == IF plain THEN given
                    ELSE applyCreate(Fn(key, "create", undefined), given)
         action == Spread(payload,
                          [f \in {"type"} |-> director.name \o <<":">> \o key])
     IN  /\ last.result.kind = "return"
         /\ last.result.value = applyReduce(fn, last.state, action)
         /\ last.result.calls = <<Call(fn, <<last.state, action>>)>>

\* C2 witness: a function-valued transition of a director with plain names
\* was dispatched with a payload and changed a non-empty state.
C2_Witness ==
  /\ last.op = "dispatch"
  /\ director.name = <<"d">>
  /\ last.key = <<"k">>
  /\ definitions.vals[last.key].t = "function"
  /\ Len(last.args) = 1
  /\ "value" \in DOMAIN last.args[1]
  /\ last.state = [f \in {"value"} |-> <<"u">>]
  /\ last.result.kind = "return"
  /\ last.result.value # last.state

\* C3: the action creator of a function-valued definition under key k of
\* director n returns the payload's fields unchanged plus type "n:k" (a type
\* in the payload is overwritten, later arguments are ignored, no caller
\* function runs); without argument it returns exactly {type: "n:k"}.
C3_PlainCreator ==
  (/\ last.op = "create"
   /\ director.actions[last.key].creator = "plain")
  => LET payload == IF Len(last.args) = 0 THEN EmptyObject ELSE last.args[1]
         type == director.name \o <<":">> \o last.key
     IN  /\ last.result.kind = "return"
         /\ last.result.calls = <<>>
         /\ DOMAIN last.result.value = (DOMAIN payload) \cup {"type"}
         /\ last.result.value["type"] = type
         /\ \A f \in (DOMAIN payload) \ {"type"} :
              last.result.value[f] = payload[f]
         /\ Len(last.args) = 0 => last.result.value = [f \in {"type"} |-> type]

\* C3 witness: a function-valued creator was called with a payload that
\* carries its own type and other fields.
C3_Witness ==
  /\ last.op = "create"
  /\ director.actions[last.key].creator = "plain"
  /\ Len(last.args) = 1
  /\ DOMAIN last.args[1] = {"value", "extra", "type"}
  /\ last.result.value["type"] # last.args[1]["type"]

\* C4: the action creator of a structured definition with create calls
\* create exactly once, with the payload, and returns exactly the fields of
\* create(payload) plus type "n:k"; the type is "n:k" even when create
\* returned a type, and no other field of the payload gets through.
C4_CreateCreator ==
  (/\ last.op = "create"
   /\ director.actions[last.key].creator = "create")
  => LET payload == IF Len(last.args) = 0 THEN EmptyObject ELSE last.args[1]
         fn == Fn(last.key, "create", undefined)
         made == applyCreate(fn, payload)
     IN  /\ last.result.kind = "return"
         /\ last.result.calls = <<Call(fn, <<payload>>)>>
         /\ DOMAIN last.result.value = (DOMAIN made) \cup {"type"}
         /\ last.result.value["type"] = director.name \o <<":">> \o last.key
         /\ \A f \in (DOMAIN made) \ {"type"} : last.result.value[f] = made[f]

\* C4 witness: a create creator was called with a payload holding a field
\* that create drops and a type that create returns.
C4_Witness ==
  /\ last.op = "create"
  /\ director.actions[last.key].creator = "create"
  /\ Len(last.args) = 1
  /\ DOMAIN last.args[1] = {"value", "extra", "type"}
  /\ "extra" \notin DOMAIN last.result.value
  /\ "value" \in DOMAIN last.result.value

C6_MissingSubKey ==
  last.op = "reduce" =>
    \A i \in 1..Len(director.definitionKeys) :
      LET key == director.definitionKeys[i]
          definition == definitions.vals[key]
          parts == split(last.action.type, ":")
      IN  (/\ definition.t = "object"
           /\ definition.reduce = "object"
           /\ Len(parts) <= 2
           /\ getBaseKey(last.action.type) = director.name \o <<":">> \o key)
          => /\ last.result.kind = "throw"
             /\ last.result.error.class = "Error"
             /\ last.result.error.message = "NoSubreducer"
             /\ split(last.result.error.names, ",") = definition.subs
             /\ last.result.calls = <<>>

\* C6 witness: an action "d:k" was reduced by a director whose transition k
\* has a reduce mapping with two sub-transitions, and the reducer threw.
C6_Witness ==
  /\ last.op = "reduce"
  /\ director.name = <<"d">>
  /\ <<"k">> \in DOMAIN definitions.vals
  /\ definitions.vals[<<"k">>].reduce = "object"
  /\ Len(definitions.vals[<<"k">>].subs) = 2
  /\ last.action.type = <<"d", ":", "k">>
  /\ last.state = [f \in {"value"} |-> <<"u">>]
  /\ last.result.kind = "throw"

\* C7: when the base key of an action selects a transition whose reduce is
\* a mapping and the third component of the type is not a sub-transition
\* name of the mapping, the reducer throws an error that lists the declared
\* names and calls no function.
C7_UnknownSubKey ==
  last.op = "reduce" =>
    \A i \in 1..Len(director.definitionKeys) :
      LET key == director.definitionKeys[i]
          definition == definitions.vals[key]
          parts == split(last.action.type, ":")
      IN  (/\ definition.t = "object"
           /\ definition.reduce = "object"
           /\ Len(parts) >= 3
           /\ parts[1] \o <<":">> \o parts[2] = director.name \o <<":">> \o key
           /\ \A j \in 1..Len(definition.subs) : definition.subs[j] # parts[3])
          => /\ last.result.kind = "throw"
             /\ last.result.error.class = "Error"
             /\ split(last.result.error.names, ",") = definition.subs
             /\ last.result.calls = <<>>

\* C8: constructing a director whose definitions contain an object without
\* reduce, with or without create and async, throws a configuration error and
\* yields no director.
C8_MissingReduce ==
  (/\ director.status # "none"
   /\ \E key \in DOMAIN definitions.vals :
        /\ definitions.vals[key].t = "object"
        /\ definitions.vals[key].reduce = "none")
  => /\ director.status = "threw"
     /\ director.error.class = "Error"
     /\ director.error.message \in
          {"ReducerFieldRequired", "CreateOrAsyncRequired", "BadDefinitionType"}

\* C9: constructing a director whose definitions contain an object that has
\* reduce but neither create nor async throws a configuration error.
C9_MissingDirective ==
  (/\ director.status # "none"
   /\ \E key \in DOMAIN definitions.vals :
        /\ definitions.vals[key].t = "object"
        /\ definitions.vals[key].reduce # "none"
        /\ ~definitions.vals[key].create
        /\ ~definitions.vals[key].async)
  => /\ director.status = "threw"
     /\ director.error.class = "Error"
     /\ director.error.message \in
          {"ReducerFieldRequired", "CreateOrAsyncRequired", "BadDefinitionType"}

\* C10: constructing a director throws a configuration error for every
\* definition value that is neither a function nor a structured object: a
\* string, a number, a boolean, undefined, null.
C10_BadDefinitionType ==
  (/\ director.status # "none"
   /\ \E key \in DOMAIN definitions.vals :
        definitions.vals[key].t \notin {"function", "object"})
  => /\ director.status = "threw"
     /\ director.error.class = "Error"
     /\ director.error.message \in
          {"ReducerFieldRequired", "CreateOrAsyncRequired", "BadDefinitionType"}


----------------------------------------------------------------------------
(* Async transitions in a store                                            *)

\* the definition the director registered under the key of the last step
lastDefinition == director.actions[last.key].definition

\* C11: the action creator of an async definition returns a function and
\* calls nothing, leaving the store as it is; every invocation of that
\* function calls the async logic exactly once, with (done, payload,
\* dispatch, getState), payload being the creator's argument or {} when
\* none was given
C11_AsyncCreator ==
  [][/\ (last'.op = "create" /\ director.actions[last'.key].creator = "async")
          => /\ last'.result.kind = "return"
             /\ DOMAIN last'.result.value = {"thunk", "payload"}
             /\ last'.result.calls = <<>>
             /\ store' = store
             /\ running' = running
             /\ dispatched' = dispatched
     /\ last'.op = "thunk"
          => /\ Len(last'.result.calls) = 1
             /\ last'.result.calls[1].fn = Fn(last'.key, "async", undefined)
             /\ Len(last'.result.calls[1].args) = 4
             /\ last'.result.calls[1].args[2]
                  = (IF last'.args = <<>> THEN EmptyObject ELSE last'.args[1])
             /\ last'.result.calls[1].args[3] = "dispatch"
             /\ last'.result.calls[1].args[4] = "getState"
             /\ Len(running') = Len(running) + 1
             /\ running'[Len(running')].done = last'.result.calls[1].args[1]
             /\ store' = store
             /\ dispatched' = dispatched]_vars

\* the function one creator call returned has been invoked twice, the
\* creator having been called without a payload
C11_Witness ==
  /\ last.op = "thunk"
  /\ last.args = <<>>
  /\ Len(running) = 2
  /\ running[1] = running[2]

\* the action a callback of director n under key and sub-transition name
\* sub must dispatch when called with args: the fields of the first
\* argument, and the type
expectedDoneAction(n, key, sub, args) ==
  LET type == IF sub = undefined THEN n \o <<":">> \o key
              ELSE n \o <<":">> \o key \o <<":">> \o sub
  IN  [f \in (IF args = <<>> THEN {} ELSE DOMAIN args[1]) \cup {"type"} |->
         IF f = "type" THEN type ELSE args[1][f]]

\* C12: when reduce is a function, done is one callback, and done(p)
\* dispatches exactly the fields of p with type "n:k", whatever type p has
C12_FlatDone ==
  /\ (last.op = "thunk" /\ typeofReduce(lastDefinition) = "function")
       => /\ last.result.calls[1].args[1].flat
          /\ DOMAIN last.result.calls[1].args[1] = {"flat", "callback"}
  /\ (last.op = "done" /\ typeofReduce(lastDefinition) = "function")
       => /\ Len(last.dispatches) = 1
          /\ last.dispatches[1].dispatch = "dispatch"
          /\ last.dispatches[1].action
               = expectedDoneAction(director.name, last.key, undefined,
                                    last.args)

\* done was called with a payload that has a type of its own
C12_Witness ==
  /\ last.op = "done"
  /\ typeofReduce(lastDefinition) = "function"
  /\ last.args # <<>>
  /\ "type" \in DOMAIN last.args[1]
  /\ last.dispatches[1].action.type = director.name \o <<":">> \o last.key

\* C13: when reduce is a mapping, done has one callback per sub-transition
\* name and no other, and done[s](p) dispatches exactly the fields of p
\* with type "n:k:s"; done[s]() dispatches {type: "n:k:s"}
C13_BranchingDone ==
  /\ (last.op = "thunk" /\ typeofReduce(lastDefinition) # "function")
       => /\ ~last.result.calls[1].args[1].flat
          /\ DOMAIN last.result.calls[1].args[1].callbacks
               = subNames(lastDefinition)
  /\ (last.op = "done" /\ typeofReduce(lastDefinition) # "function")
       => /\ Len(last.dispatches) = 1
          /\ last.dispatches[1].dispatch = "dispatch"
          /\ last.dispatches[1].action
               = expectedDoneAction(director.name, last.key, last.sub,
                                    last.args)

\* a name that contains no separator
noSeparator(name) == \A i \in 1..Len(name) : name[i] # SEP

\* C14: for a director name, key and sub-transition name without separator,
\* the action a callback dispatches is reduced by reduce (a function) or by
\* exactly reduce[s] (a mapping) of the same transition, called once with
\* the store's state and the action, without error, and its result becomes
\* the store's state; the store's state changes at no other step
C14_AsyncEndToEnd ==
  [][/\ store' # store => last'.op = "done"
     /\ (/\ last'.op = "done"
         /\ noSeparator(director.name)
         /\ noSeparator(last'.key)
         /\ last'.sub # undefined => noSeparator(last'.sub))
          => /\ Len(last'.outcomes) = 1
             /\ last'.outcomes[1].kind = "return"
             /\ last'.outcomes[1].calls
                  = <<Call(Fn(last'.key, "reduce", last'.sub),
                           <<store, last'.dispatches[1].action>>)>>
             /\ store' = last'.outcomes[1].value]_vars

\* C15: every invocation of a completion callback performs exactly one
\* dispatch, at once: the store reduces that action in the same step, so n
\* invocations make n dispatches in invocation order; no other step
\* dispatches or changes the store
C15_OneDispatchPerCall ==
  [][/\ called' = called + 1
          => /\ dispatched' = dispatched + 1
             /\ Len(last'.dispatches) = 1
             /\ Len(last'.outcomes) = 1
             /\ LET reduced == reducer(director, definitions, store,
                                       last'.dispatches[1].action)
                IN  /\ last'.outcomes[1] = reduced
                    /\ store' = IF reduced.kind = "return"
                                THEN reduced.value ELSE store
     /\ called' = called => (dispatched' = dispatched /\ store' = store)
     /\ dispatched = called
     /\ dispatched' = called']_vars

\* the one callback of an invocation has been called twice, and two
\* dispatches were made
C15_Witness ==
  /\ last.op = "done"
  /\ Len(running) = 1
  /\ running[1].done.flat
  /\ called = 2
  /\ dispatched = 2

----------------------------------------------------------------------------
(* Composition                                                             *)

\* the slice keys of the composition
sliceKeys == {composite.directors.keys[i] : i \in 1..Len(composite.directors.keys)}

\* the director combined under a slice key
directorAt(slice) == composite.directors.vals[slice]

\* the director's name and its transition keys contain no separator
plainNames(instance) ==
  /\ noSeparator(instance.dir.name)
  /\ \A i \in 1..Len(instance.defs.keys) : noSeparator(instance.defs.keys[i])

\* C16: an action made by an action creator or a completion callback of the
\* director under one slice leaves the slice of every director with another
\* name as it was, calls none of that director's functions and raises no
\* error in its reducer, names and keys having no separator
C16_NamespaceIsolation ==
  last.op = "combinedDispatch"
    => \A other \in sliceKeys \ {last.slice} :
         (/\ directorAt(other).dir.name # directorAt(last.slice).dir.name
          /\ plainNames(directorAt(other))
          /\ plainNames(directorAt(last.slice)))
           => /\ reducer(directorAt(other).dir, directorAt(other).defs,
                         sliceOf(last.state, other), last.action)
                   = Return(stateOf(sliceOf(last.state, other)), <<>>)
              /\ \A j \in 1..Len(last.result.calls) :
                   last.result.calls[j].slice # other
              /\ (last.result.kind = "return" /\ other \in DOMAIN last.state)
                   => last.result.value[other] = last.state[other]

\* two directors with different names and the same transition, with the same
\* sub-transitions: a callback's action changed its own director's slice and
\* not the other one
C16_Witness ==
  /\ last.op = "combinedDispatch"
  /\ sliceKeys = {"a", "b"}
  /\ directorAt("a").dir.name # directorAt("b").dir.name
  /\ directorAt("a").defs = directorAt("b").defs
  /\ directorAt("a").defs.keys = <<(<<"k">>)>>
  /\ typeofReduce(directorAt("a").defs.vals[<<"k">>]) = "object"
  /\ DOMAIN last.state = {"a", "b"}
  /\ last.result.kind = "return"
  /\ last.result.value[last.slice] # last.state[last.slice]
  /\ \A other \in sliceKeys \ {last.slice} :
       last.result.value[other] = last.state[other]

\* what every director's own reducer makes of its slice and the action
ownOutcome(slice, state, action) ==
  reducer(directorAt(slice).dir, directorAt(slice).defs,
          sliceOf(state, slice), action)

\* C17: with the default combining function the combined reducer applies
\* every director's reducer to the action and to that director's slice only
\* and assembles the results under the slice keys (an error of a director's
\* reducer is the error of the combined reducer); the same comes out of the
\* combining function applied to the mapping of slice keys to reducers
C17_CompositionRouting ==
  last.op = "combinedReduce"
    => LET own == [slice \in sliceKeys |->
                     ownOutcome(slice, last.state, last.action)]
           threw == {i \in 1..Len(composite.directors.keys) :
                       own[composite.directors.keys[i]].kind = "throw"}
           direct == [combinator |-> combineReducersFn,
                      reducers |->
                        [keys |-> composite.directors.keys,
                         vals |-> [slice \in sliceKeys |->
                                     reducerOf(directorAt(slice))]]]
       IN  /\ threw = {}
                => /\ last.result.kind = "return"
                   /\ last.result.value
                        = [slice \in sliceKeys |-> own[slice].value]
                   /\ \A slice \in sliceKeys :
                        \A j \in 1..Len(own[slice].calls) :
                          \E i \in 1..Len(last.result.calls) :
                            last.result.calls[i]
                              = [slice |-> slice, call |-> own[slice].calls[j]]
           /\ threw # {}
                => /\ last.result.kind = "throw"
                   /\ \E i \in threw :
                        /\ \A j \in threw : i <= j
                        /\ last.result.error
                             = own[composite.directors.keys[i]].error
           /\ \A i \in 1..Len(last.result.calls) :
                last.result.calls[i].call.args[1]
                  = stateOf(sliceOf(last.state, last.result.calls[i].slice))
           /\ last.result = combinedReducer(direct, last.state, last.action)

\* two different directors, an action that the director under b handles and
\* the one under a does not
C17_Witness ==
  /\ last.op = "combinedReduce"
  /\ sliceKeys = {"a", "b"}
  /\ DOMAIN last.state = {"a", "b"}
  /\ last.result.kind = "return"
  /\ last.result.value["a"] = last.state["a"]
  /\ last.result.value["b"] # last.state["b"]

----------------------------------------------------------------------------
(* The account scenario                                                    *)

\* C19: in the account scenario actions.login({username: u}) is
\* {username: u, type: "account:login"} and actions.logout() is
\* {type: "account:logout"}; after every step of any sequence of them the
\* state has loggedIn true and username u when the step was a login of u,
\* and loggedIn false and username null when it was a logout
C19_AccountScenario ==
  /\ last.op = "login"
       => /\ DOMAIN last.payload = {"username"}
               => last.action
                    = [f \in {"username", "type"} |->
                         IF f = "type" THEN <<"account", ":", "login">>
                         ELSE last.payload.username]
          /\ last.action.type = <<"account", ":", "login">>
          /\ last.result.kind = "return"
          /\ store = [f \in {"loggedIn", "username"} |->
                        IF f = "loggedIn" THEN <<"#true">>
                        ELSE last.payload.username]
  /\ last.op = "logout"
       => /\ last.action = [f \in {"type"} |-> <<"account", ":", "logout">>]
          /\ last.result.kind = "return"
          /\ store = [f \in {"loggedIn", "username"} |->
                        IF f = "loggedIn" THEN <<"#false">> ELSE <<"#null">>]

\* a login of alice after a logout after a login of bob
C19_Witness ==
  /\ last.op = "login"
  /\ DOMAIN last.payload = {"username"}
  /\ last.payload.username = <<"alice">>
  /\ last.state = [f \in {"loggedIn", "username"} |->
                     IF f = "loggedIn" THEN <<"#false">> ELSE <<"#null">>]
  /\ dispatched = 3
  /\ store.username = <<"alice">>

----------------------------------------------------------------------------
(* Defaults, fixity and routing                                            *)

\* the type is "<name>:<key>" or starts with "<name>:<key>:" for a key of
\* the director
ownType(type) ==
  \E i \in 1..Len(director.definitionKeys) :
    LET wanted == director.name \o <<":">> \o director.definitionKeys[i]
    IN  \/ type = wanted
        \/ /\ Len(type) > Len(wanted)
           /\ SubSeq(type, 1, Len(wanted) + 1) = wanted \o <<":">>

\* C21: called without a state the reducer does what it does with {}: for
\* an action that is not the director's own it returns {} and throws
\* nothing, and a transition function that runs receives {} as its state
C21_DefaultState ==
  (last.op = "reduce" /\ last.state = undefinedObject)
    => /\ last.result
            = reducer(director, definitions, EmptyObject, last.action)
       /\ ~ownType(last.action.type)
            => last.result = Return(EmptyObject, <<>>)
       /\ \A j \in 1..Len(last.result.calls) :
            last.result.calls[j].args[1] = EmptyObject

\* C22: whatever the caller does to its definitions object after the
\* constructor ran, the reducer does what it does with the definitions the
\* constructor saw, and the action creators are those of these definitions
\* and return what they returned
C22_FixedAtConstruction ==
  director.status = "ok"
    => LET original == constructedFrom(director)
           fresh == Constructor(director.name, original)
       IN  /\ DOMAIN director.actions = DOMAIN original.vals
           /\ director.actions = fresh.actions
           /\ last.op = "create"
                => last.result = actionCreator(fresh, last.key, last.args)
           /\ last.op = "reduce"
                => last.result
                     = reducer(fresh, original, last.state, last.action)

\* the positions of the definition keys whose key made with the director's
\* name is the base key of the type
matching(type) ==
  {i \in 1..Len(director.definitionKeys) :
     makeKey(director.name, director.definitionKeys[i], undefined)
       = getBaseKey(type)}

\* C23: no action type is matched by two keys of one director, and the
\* reducer's result is the same for every order of the same definitions
C23_UniqueMatch ==
  last.op = "reduce"
    => /\ Cardinality(matching(last.action.type)) <= 1
       /\ \A ks \in KeyLists :
            {ks[i] : i \in 1..Len(ks)} = DOMAIN definitions.vals
              => reducer([director EXCEPT !.definitionKeys = ks],
                         definitions, last.state, last.action)
                   = last.result

\* a director with the keys k and k:s reduced an action that the second of
\* its definitions handles
C23_Witness ==
  /\ last.op = "reduce"
  /\ Len(director.definitionKeys) = 2
  /\ DOMAIN definitions.vals = {<<"k">>, <<"k", ":", "s">>}
  /\ matching(last.action.type) = {2}
  /\ Len(last.result.calls) = 1

\* the functions a reducer call invoked, in order
fnsOf(outcome) == [j \in 1..Len(outcome.calls) |-> outcome.calls[j].fn]

\* C24: an action whose first two type components are the director's name
\* and a key goes, whatever follows them, to the function under that key
\* or to its reduce function with (state, action); with a reduce mapping
\* the third component names the sub-reducer that runs, and components
\* after the third change neither the function that runs nor the error
C24_LeadingComponents ==
  last.op = "reduce"
    => LET parts == split(last.action.type, ":")
           state == stateOf(last.state)
       IN  \A i \in 1..Len(director.definitionKeys) :
             LET key == director.definitionKeys[i]
                 definition == definitions.vals[key]
                 fn == IF definition.t = "function"
                       THEN Fn(key, "definition", undefined)
                       ELSE Fn(key, "reduce", undefined)
             IN  (Len(parts) >= 2 /\ parts[1] = director.name /\ parts[2] = key)
                   => /\ (definition.t = "function"
                            \/ definition.reduce = "function")
                           => last.result
                                = Return(applyReduce(fn, state, last.action),
                                         <<Call(fn, <<state, last.action>>)>>)
                      /\ (/\ definition.reduce = "object"
                          /\ Len(parts) >= 3
                          /\ parts[3] # <<>>
                          /\ parts[3] \in subNames(definition))
                           => last.result.calls
                                = <<Call(Fn(key, "reduce", parts[3]),
                                         <<state, last.action>>)>>
                      /\ (definition.reduce = "object" /\ Len(parts) >= 4)
                           => LET short ==
                                    reducer(director, definitions, last.state,
                                            [last.action EXCEPT !.type =
                                               join(SubSeq(parts, 1, 3), ":")])
                              IN  /\ last.result.kind = short.kind
                                  /\ fnsOf(last.result) = fnsOf(short)
                                  /\ last.result.kind = "throw"
                                       => last.result.error.message
                                            = short.error.message

\* an action with four type components was reduced by the sub-reducer its
\* third component names
C24_Witness ==
  /\ last.op = "reduce"
  /\ director.name = <<"d">>
  /\ last.action.type = <<"d", ":", "k", ":", "s", ":", "s">>
  /\ <<"k">> \in DOMAIN definitions.vals
  /\ definitions.vals[<<"k">>].reduce = "object"
  /\ fnsOf(last.result) = <<Fn(<<"k">>, "reduce", <<"s">>)>>

\* the definition has create and a reduce mapping
createBranching(definition) ==
  definition.t = "object" /\ definition.create /\ definition.reduce = "object"

\* C25 (as stated): a definition with create and a reduce mapping is
\* accepted by the constructor, and reducing an action its action creator
\* made throws the missing-sub-key error and runs no function
C25_CreateBranching ==
  /\ (/\ director.status # "none"
      /\ \A key \in DOMAIN definitions.vals :
           createBranching(definitions.vals[key]))
       => director.status = "ok"
  /\ (last.op = "dispatch" /\ createBranching(lastDefinition))
       => /\ last.created.kind = "return"
          /\ last.result.kind = "throw"
          /\ last.result.error.message = "NoSubreducer"
          /\ last.result.calls = <<>>

\* C25 (amended): the same for a director name and a key without separator
C25_CreateBranchingAmended ==
  /\ (/\ director.status # "none"
      /\ \A key \in DOMAIN definitions.vals :
           createBranching(definitions.vals[key]))
       => director.status = "ok"
  /\ (/\ last.op = "dispatch"
      /\ createBranching(lastDefinition)
      /\ noSeparator(director.name)
      /\ noSeparator(last.key))
       => /\ last.created.kind = "return"
          /\ last.created.value.type = director.name \o <<":">> \o last.key
          /\ last.result.kind = "throw"
          /\ last.result.error.message = "NoSubreducer"
          /\ last.result.calls = <<>>

\* an action made by the creator of a definition with create and a reduce
\* mapping was reduced, and the reducer threw
C25_Witness ==
  /\ last.op = "dispatch"
  /\ createBranching(lastDefinition)
  /\ director.name = <<"d">>
  /\ last.key = <<"k">>
  /\ last.created.value.type = <<"d", ":", "k">>
  /\ last.result.kind = "throw"

\* every function the last step invoked
lastCalls ==
  (IF "created" \in DOMAIN last THEN last.created.calls ELSE <<>>)
    \o (IF "result" \in DOMAIN last THEN last.result.calls ELSE <<>>)

\* C26: for a definition with create and async the action creator returns
\* the action {...create(payload), type: "<name>:<key>"}, create being
\* called once with the payload, never a function to dispatch, and no step
\* invokes the async logic
C26_CreatePrecedence ==
  (/\ last.op \in {"create", "dispatch"}
   /\ lastDefinition.t = "object"
   /\ lastDefinition.create
   /\ lastDefinition.async)
    => LET made == IF last.op = "create" THEN last.result ELSE last.created
           payload == IF last.args = <<>> \/ last.args[1] = undefinedObject
                      THEN EmptyObject ELSE last.args[1]
           create == Fn(last.key, "create", undefined)
       IN  /\ made.kind = "return"
           /\ "thunk" \notin DOMAIN made.value
           /\ made.calls = <<Call(create, <<payload>>)>>
           /\ made.value
                = Spread(applyCreate(create, payload),
                         [f \in {"type"} |->
                            director.name \o <<":">> \o last.key])
           /\ \A j \in 1..Len(lastCalls) :
                lastCalls[j].fn # Fn(last.key, "async", undefined)

\* the creator of a definition with create and async was called with a
\* payload and returned an action that keeps the payload's value
C26_Witness ==
  /\ last.op = "create"
  /\ lastDefinition.t = "object"
  /\ lastDefinition.create
  /\ lastDefinition.async
  /\ last.args # <<>>
  /\ DOMAIN last.result.value = {"value", "type"}

----------------------------------------------------------------------------
(* Separators in names                                                     *)

\* the action the last step handed to the reducer
lastAction ==
  IF last.op = "dispatch" THEN last.created.value ELSE last.action

\* C27: the constructor accepts a name with a separator as it accepts any
\* other; the reducer of a director with such a name returns the state it
\* is given, calling nothing, for every action, those of its own action
\* creators and completion callbacks included; and a key with a separator
\* is never the one the reducer selects
C27_SeparatorInNames ==
  /\ director.status # "none"
       => director.status = Constructor(<<"x">>, definitions).status
  /\ last.op \in {"reduce", "dispatch", "reduceDone"}
       => /\ ~noSeparator(director.name)
               => last.result = Return(stateOf(last.state), <<>>)
          /\ \A i \in matching(lastAction.type) :
               noSeparator(director.definitionKeys[i])
          /\ \A i \in 1..Len(director.definitionKeys) :
               ~noSeparator(director.definitionKeys[i])
                 => \A j \in 1..Len(last.result.calls) :
                      \/ Len(last.result.calls[j].fn)
                           <= Len(director.definitionKeys[i])
                      \/ SubSeq(last.result.calls[j].fn, 1,
                                Len(director.definitionKeys[i]) + 1)
                           # director.definitionKeys[i] \o <<".">>

\* the director named d:k reduced an action a completion callback of its
\* transition k dispatched, and returned the state it was given
C27_Witness ==
  /\ last.op = "reduceDone"
  /\ director.name = <<"d", ":", "k">>
  /\ last.key = <<"k">>
  /\ last.action.type = <<"d", ":", "k", ":", "k", ":", "s">>
  /\ last.state = [f \in {"value"} |-> <<"u">>]
  /\ last.result.value = last.state

----------------------------------------------------------------------------
(* Construction                                                            *)

\* a definition the constructor must reject: neither a function nor an
\* object with reduce and with create or async
invalid(definition) ==
  ~(\/ definition.t = "function"
    \/ /\ definition.t = "object"
       /\ definition.reduce # "none"
       /\ (definition.create \/ definition.async))

\* the positions of the invalid definitions, in the mapping's order
invalidAt ==
  {i \in 1..Len(definitions.keys) :
     invalid(definitions.vals[definitions.keys[i]])}

\* the definitions object that holds the definition at position i alone
alone(i) ==
  [keys |-> <<definitions.keys[i]>>,
   vals |-> [k \in {definitions.keys[i]} |-> definitions.vals[k]]]

\* C28: construction fails exactly when a definition is invalid, with the
\* error the earliest invalid definition raises by itself, which is the
\* missing-reduce error for an object without reduce, create and async; a
\* failed construction leaves no actions and no reducer; and construction
\* invokes none of the caller's functions
C28_FailFast ==
  director.status # "none"
    => /\ director.status = "threw" <=> invalidAt # {}
       /\ director.status = "threw"
            => \E i \in invalidAt :
                 /\ \A j \in invalidAt : i <= j
                 /\ director.error
                      = Constructor(<<"d">>, alone(i)).error
                 /\ (/\ definitions.vals[definitions.keys[i]].t = "object"
                     /\ definitions.vals[definitions.keys[i]].reduce = "none")
                      => director.error.message = "ReducerFieldRequired"
                 /\ DOMAIN director = {"status", "error"}
       /\ forEachDefinition(definitions, definitions.keys, 1,
                            EmptyObject).calls = <<>>

\* construction failed on a string definition that comes before an object
\* without reduce
C28_Witness ==
  /\ director.status = "threw"
  /\ Len(definitions.keys) = 2
  /\ definitions.vals[definitions.keys[1]].t = "string"
  /\ definitions.vals[definitions.keys[2]]
       = Def("object", FALSE, FALSE, "none", <<>>)
  /\ director.error.message = "BadDefinitionType"

----------------------------------------------------------------------------
(* Callbacks of several invocations                                        *)

\* C29: with two invocations in flight, whichever callback is called next
\* dispatches one action, of the type of the transition and sub-transition
\* of its own invocation and with the fields passed to this call, and the
\* store's state becomes what the reducer makes of the state before and that
\* action
C29_Concurrency ==
  [][(last'.op = "done" /\ Len(running) = 2)
       => /\ \E i \in 1..Len(running) :
               /\ running[i].key = last'.key
               /\ running[i].done = last'.done
          /\ last'.dispatches
               = <<[dispatch |-> "dispatch",
                    action |-> expectedDoneAction(director.name, last'.key,
                                                  last'.sub, last'.args)]>>
          /\ LET reduced == reducer(director, definitions, store,
                                    last'.dispatches[1].action)
             IN  store' = IF reduced.kind = "return"
                          THEN reduced.value ELSE store]_vars

----------------------------------------------------------------------------
(* Directors of the same name in one composition                           *)

\* two directors of the same name are combined and both define the
\* transition whose action was dispatched
sameNameDispatch ==
  /\ last.op = "combinedDispatch"
  /\ sliceKeys = {"a", "b"}
  /\ directorAt("a").dir.name = directorAt("b").dir.name
  /\ \A slice \in sliceKeys : last.key \in DOMAIN directorAt(slice).dir.actions

\* the director under slice ran a transition function of the dispatched
\* transition on its own slice, and the result is its slice
reducedIn(slice) ==
  /\ last.result.kind = "return"
  /\ \E j \in 1..Len(last.result.calls) :
       /\ last.result.calls[j].slice = slice
       /\ SubSeq(last.result.calls[j].call.fn, 1, Len(last.key) + 1)
            = last.key \o <<".">>
       /\ last.result.calls[j].call.args
            = <<stateOf(sliceOf(last.state, slice)), last.action>>
       /\ last.result.value[slice]
            = applyReduce(last.result.calls[j].call.fn,
                          stateOf(sliceOf(last.state, slice)), last.action)

\* combine made the composition of two directors of the same name, keyed by
\* the keys of the mapping
keyedBySlice ==
  (/\ composite.status = "ok"
   /\ sliceKeys = {"a", "b"}
   /\ directorAt("a").dir.name = directorAt("b").dir.name)
    => /\ composite.result.kind = "return"
       /\ DOMAIN composite.result.value.actions = sliceKeys
       /\ \A slice \in sliceKeys :
            composite.result.value.reducer.reducers.vals[slice]
              = reducerOf(directorAt(slice))

suits(definition, action) ==
  \/ typeof(definition) = "function"
  \/ typeofReduce(definition) = "function"
  \/ getSubKey(action.type) \in subNames(definition)

\* the slices whose director cannot take the last action, by position
unsuited ==
  {i \in 1..Len(composite.directors.keys) :
     ~suits(directorAt(composite.directors.keys[i]).defs.vals[last.key],
            last.action)}

============================================================================
